---- MODULE Spec2Model ----
(***************************************************************************)
(* Model of src/app.py: a Streamlit oral-interview application.  The       *)
(* script is executed top to bottom on every widget interaction and on     *)
(* every st.rerun(); st.session_state survives between executions.  One    *)
(* action of this model is one execution of the script, triggered by one   *)
(* event (a widget change, a button click, or a pending st.rerun()).       *)
(*                                                                         *)
(* Strings built by the program are modelled as sequences of tokens: the   *)
(* empty Python string is <<>> and an f-string is a concatenation.         *)
(***************************************************************************)
EXTENDS Integers, Sequences, FiniteSets, TLC

VARIABLES
    history,        \* st.session_state.history
    exam_state,     \* st.session_state.exam_state
    phase_index,    \* st.session_state.phase_index
    exam_config,    \* st.session_state.exam_config
    student_info,   \* st.session_state.student_info (Absent until a start)
    cefr_level,     \* st.session_state.cefr_level  ("absent" until a start)
    saved,          \* "saved" in st.session_state
    mode,           \* value of the sidebar radio widget
    audio_val,      \* value of the st.audio_input widget: "none" or "rec"
    gemini_key,     \* "GEMINI_API_KEY" in st.secrets (the global `textbooks` is bound)
    gcp_creds,      \* "gcp_service_account" in st.secrets
    rerun_pending,  \* st.rerun() was called: the script runs again at once
    audio_phase,    \* history: phase_index when the held recording was captured
    audio_turns,    \* history: student Turns produced from the held recording
    gen_faults,     \* history: generation calls that met an exception
    save_calls,     \* history: invocations of save_result since the session started
    last_step,      \* last execution of the script: the branch it took
    stt_log,        \* last execution: its transcription request, if any
    gen_log,        \* last execution: its calls of safe_generate_content
    save_log,       \* last execution: its call of save_result, if any
    form_error      \* last execution: the input it refused (lines 216, 266)

vars == <<history, exam_state, phase_index, exam_config, student_info,
          cefr_level, saved, mode, audio_val, gemini_key, gcp_creds,
          rerun_pending, audio_phase, audio_turns, gen_faults, save_calls,
          last_step, stt_log, gen_log, save_log, form_error>>

-----------------------------------------------------------------------------
(* Bounds of the model *)

MaxGenFaults == 1     \* generation calls that meet an exception, per session
MaxSaveCalls == 2     \* invocations of save_result followed in one session

-----------------------------------------------------------------------------
(* Constants of the program *)

PHASE_ORDER == <<"warmup", "level_check", "level_check", "probe", "wind_down">>

OPI_PHASES == [warmup |-> "Warm-up", level_check |-> "Level check",
               probe |-> "Probe", wind_down |-> "Wind-down"]

ADMIN_PASSWORD == "admin"

Practice == "practice"
Exam == "exam"

Candidates == <<"gemini-1.5-flash", "gemini-1.5-pro">>

(* Input domains of the widgets *)
CefrLevels == {"B1"}
Names == {<<>>, <<"Yamada">>}
Ids == {<<>>, <<"15">>}
Classes == {<<"2A">>}
Urls == {<<>>, <<"https://docs.google.com/spreadsheets/d/1">>}
Years == {"2025"}
ExamTypes == {"midterm-1"}
Passwords == {"", "admin"}

Absent == [has |-> FALSE]
None == [has |-> FALSE]
Some(v) == [has |-> TRUE, v |-> v]

\* Python truthiness of an optional string
Truthy(o) == o.has /\ o.v # <<>>

\* dict.get(key, default)
Get(d, k, default) == IF k \in DOMAIN d THEN d[k] ELSE default

PracticeConfig == [is_exam |-> FALSE]

Last(s) == s[Len(s)]

-----------------------------------------------------------------------------
(* The collaborators' answers, chosen by the environment at each call *)

\* one generation backend: each candidate model answers or raises
GenEnvs == [{Candidates[1], Candidates[2]} -> {"ok", "raise"}]

\* the text a candidate returns, and the message of the exception it raises
Reply(model) == <<"reply of ", model>>
ErrorOf(model) == <<"error of ", model>>

\* ffmpeg: exit status 0 with the mp3 present, or not
FfmpegResults == {"converted", "failed"}

\* the recognition service: no result, an exception, or a transcript
SpeechResults == {"no_results", "exception", "empty_transcript", "transcript"}

\* the spreadsheet service
SheetResults == {"appended", "open_raises", "append_raises"}

-----------------------------------------------------------------------------
(* The functions of app.py *)

\* safe_generate_content with a fallback that swallows the failure: when
\* every candidate raises it returns the empty string
safe_generate_content_silent(prompt_content, env) ==
    IF env[Candidates[1]] = "ok"
    THEN [env |-> env, prompt |-> prompt_content, called |-> <<Candidates[1]>>,
          text |-> Reply(Candidates[1])]
    ELSE IF env[Candidates[2]] = "ok"
    THEN [env |-> env, prompt |-> prompt_content, called |-> <<Candidates[1], Candidates[2]>>,
          text |-> Reply(Candidates[2])]
    ELSE [env |-> env, prompt |-> prompt_content, called |-> <<Candidates[1], Candidates[2]>>,
          text |-> <<>>]

\* safe_generate_content calling the second candidate before it looks at
\* the result of the first
safe_generate_content_eager(prompt_content, env) ==
    IF env[Candidates[1]] = "ok"
    THEN [env |-> env, prompt |-> prompt_content, called |-> <<Candidates[1], Candidates[2]>>,
          text |-> Reply(Candidates[1])]
    ELSE IF env[Candidates[2]] = "ok"
    THEN [env |-> env, prompt |-> prompt_content, called |-> <<Candidates[1], Candidates[2]>>,
          text |-> Reply(Candidates[2])]
    ELSE [env |-> env, prompt |-> prompt_content, called |-> <<Candidates[1], Candidates[2]>>,
          text |-> <<"generation error: ">> \o ErrorOf(Candidates[1])]

\* safe_generate_content (lines 55-68).  `called` lists the models whose
\* generate_content was invoked, in order, with `prompt`; the reply of a
\* model is the environment's, whatever the prompt.
safe_generate_content(prompt_content, env) ==
    IF env[Candidates[1]] = "ok"
    THEN [env |-> env, prompt |-> prompt_content, called |-> <<Candidates[1]>>,
          text |-> Reply(Candidates[1])]
    ELSE IF env[Candidates[2]] = "ok"
    THEN [env |-> env, prompt |-> prompt_content, called |-> <<Candidates[1], Candidates[2]>>,
          text |-> Reply(Candidates[2])]
    ELSE [env |-> env, prompt |-> prompt_content, called |-> <<Candidates[1], Candidates[2]>>,
          \* `e` is the exception bound by the outer except clause
          text |-> <<"generation error: ">> \o ErrorOf(Candidates[1])]

\* the candidates that raised in one call of safe_generate_content
Raised(call) ==
    {call.called[i] : i \in {j \in 1..Len(call.called) :
                                 call.env[call.called[j]] = "raise"}}

\* whether the call met an exception
Faults(call) == IF Raised(call) = {} THEN 0 ELSE 1

\* what the logs keep of a call
Logged(kind, call) ==
    [kind |-> kind, prompt |-> call.prompt, called |-> call.called,
     raised |-> Raised(call), text |-> call.text]

IsDialogue(h) == h.role \in {"examiner", "student"}
HistoryLine(h) == <<h.role, h.text>>
RECURSIVE HistoryText(_)
HistoryText(hist) ==
    IF hist = <<>> THEN <<>>
    ELSE IF IsDialogue(hist[1])
         THEN <<HistoryLine(hist[1])>> \o HistoryText(Tail(hist))
         ELSE HistoryText(Tail(hist))

\* get_opi_question (lines 71-103)
get_opi_question(cefr, phase, hist, info, exam_context, env) ==
    safe_generate_content(
        [kind |-> "question",
         strict |-> exam_context["is_exam"],
         class |-> IF exam_context["is_exam"] THEN exam_context["class"] ELSE <<>>,
         name |-> info["name"],
         cefr |-> cefr,
         phase |-> OPI_PHASES[phase],
         history_text |-> HistoryText(hist)],
        env)

\* evaluate_response (lines 106-114)
evaluate_response(question, answer, cefr, phase, env) ==
    safe_generate_content(
        [kind |-> "evaluation", cefr |-> cefr, phase |-> phase,
         question |-> question, answer |-> answer],
        env)

\* speech_to_text (lines 117-132): the pair (transcript, error)
speech_to_text(creds, service) ==
    IF ~creds THEN <<None, Some(<<"auth error">>)>>
    ELSE IF service = "no_results" THEN <<None, Some(<<"not heard">>)>>
    ELSE IF service = "exception" THEN <<None, Some(<<"exception">>)>>
    ELSE IF service = "empty_transcript" THEN <<Some(<<>>), None>>
    ELSE <<Some(<<"transcript">>), None>>

\* save_result (lines 135-165): (ok, message), the row handed to append_row
\* (<<>> when append_row is not reached) and the generation call it makes.
save_result(info, level, exam_context, hist, creds, sheet, env) ==
    LET sheet_url == Get(exam_context, "sheet_url", <<>>)
        exam_name == IF exam_context["is_exam"]
                     THEN <<exam_context["year"], exam_context["type"]>>
                     ELSE <<"practice mode">>
        summary   == safe_generate_content(
                         [kind |-> "summary", log |-> hist], env)
        row       == <<exam_name, Get(exam_context, "class", <<"-">>),
                       info["class"], info["id"], info["name"], level,
                       summary.text>>
    IN  IF ~creds
        THEN [ok |-> FALSE, msg |-> <<"auth error">>, row |-> <<>>, gen |-> <<>>]
        ELSE IF sheet_url = <<>>
        THEN [ok |-> FALSE, msg |-> <<"no sheet url">>, row |-> <<>>, gen |-> <<>>]
        ELSE IF sheet = "open_raises"
        THEN [ok |-> FALSE, msg |-> <<"exception">>, row |-> <<>>, gen |-> <<>>]
        ELSE IF sheet = "append_raises"
        THEN [ok |-> FALSE, msg |-> <<"exception">>, row |-> row,
              gen |-> <<summary>>]
        ELSE [ok |-> TRUE, msg |-> summary.text, row |-> row,
              gen |-> <<summary>>]

\* what the logs keep of a call of save_result
LoggedSave(r) == [ok |-> r.ok, msg |-> r.msg, row |-> r.row]

-----------------------------------------------------------------------------
(* The state after the first execution of lines 172-175 *)

NoRequest == <<>>

Init ==
    /\ history = <<>>
    /\ exam_state = "setting"
    /\ phase_index = 0
    /\ exam_config = PracticeConfig
    /\ student_info = Absent
    /\ cefr_level = "absent"
    /\ saved = FALSE
    /\ mode = Practice
    /\ audio_val = "none"
    /\ gemini_key \in BOOLEAN
    /\ gcp_creds \in BOOLEAN
    /\ rerun_pending = FALSE
    /\ audio_phase = 0
    /\ audio_turns = 0
    /\ gen_faults = 0
    /\ save_calls = 0
    /\ last_step = "first_run"
    /\ stt_log = NoRequest
    /\ gen_log = <<>>
    /\ save_log = NoRequest
    /\ form_error = "none"

\* the secrets are read-only for the life of the process
Secrets == UNCHANGED <<gemini_key, gcp_creds>>

\* PHASE_ORDER[i] with Python's zero-based index
PhaseAt(i) == PHASE_ORDER[i + 1]

\* a widget that is not rendered in an execution loses its value
AudioDropped ==
    /\ audio_val' = "none"
    /\ audio_phase' = 0
    /\ audio_turns' = 0

AudioKept(aud, captured, turns) ==
    /\ audio_val' = aud
    /\ audio_phase' = captured
    /\ audio_turns' = turns

\* the environment may raise at most MaxGenFaults backend exceptions
FaultsOf(calls) ==
    IF Len(calls) = 0 THEN 0
    ELSE IF Len(calls) = 1 THEN Faults(calls[1])
    ELSE Faults(calls[1]) + Faults(calls[2])

WithinFaults(calls) ==
    /\ gen_faults + FaultsOf(calls) <= MaxGenFaults
    /\ gen_faults' = gen_faults + FaultsOf(calls)

\* st.session_state.clear() (lines 242, 373) followed by lines 172-175 of
\* the execution that st.rerun() starts
Clear ==
    /\ history' = <<>>
    /\ exam_state' = "setting"
    /\ phase_index' = 0
    /\ exam_config' = PracticeConfig
    /\ student_info' = Absent
    /\ cefr_level' = "absent"
    /\ saved' = FALSE
    /\ mode' = Practice
    /\ AudioDropped
    /\ rerun_pending' = TRUE
    /\ gen_faults' = 0
    /\ stt_log' = NoRequest

\* lines 186-189: the radio in practice position overwrites exam_config
SidebarConfig(m, config) == IF m = Practice THEN PracticeConfig ELSE config

-----------------------------------------------------------------------------
(* The main area (lines 254-374).  `config` is st.session_state.exam_config *)
(* as the sidebar left it.  Each branch sets every variable but mode,      *)
(* exam_config and the secrets.                                            *)

\* lines 255-298 with no start button clicked: the form is only rendered
SettingBranch ==
    /\ UNCHANGED <<history, exam_state, phase_index, student_info,
                   cefr_level, saved, save_calls>>
    /\ AudioDropped
    /\ rerun_pending' = FALSE
    /\ WithinFaults(<<>>)
    /\ last_step' = "setting_rendered"
    /\ stt_log' = NoRequest
    /\ gen_log' = <<>>
    /\ save_log' = NoRequest

\* the answer cycle evaluating every answer against the first question of
\* the session
AnswerCycleFirstQuestion(config, text, aud, captured, turns) ==
    LET h1     == Append(history, [role |-> "student", text |-> text.v])
        last_q == h1[1]["text"]
        phase  == h1[1]["phase"]
        pi     == phase_index + 1
    IN  \E envE \in GenEnvs :
        LET ev == evaluate_response(last_q, text.v, cefr_level, phase, envE)
            h2 == Append(h1, [role |-> "grade", text |-> ev.text])
        IN  /\ gen_faults + Faults(ev) <= MaxGenFaults
            /\ phase_index' = pi
            /\ UNCHANGED <<student_info, cefr_level, saved, save_calls>>
            /\ AudioKept(aud, captured, turns + 1)
            /\ save_log' = NoRequest
            /\ IF pi < Len(PHASE_ORDER)
               THEN IF gemini_key
                    THEN \E envQ \in GenEnvs :
                         LET next_p == PhaseAt(pi)
                             q == get_opi_question(cefr_level, next_p, h2,
                                      student_info, config, envQ)
                         IN  /\ WithinFaults(<<ev, q>>)
                             /\ history' = Append(h2, [role |-> "examiner",
                                      text |-> q.text, phase |-> next_p])
                             /\ exam_state' = exam_state
                             /\ rerun_pending' = TRUE
                             /\ gen_log' = <<Logged("evaluation", ev),
                                            Logged("question", q)>>
                             /\ last_step' = "answer_next_question"
                    ELSE \* NameError: `textbooks` is not bound (line 354)
                         /\ WithinFaults(<<ev>>)
                         /\ history' = h2
                         /\ exam_state' = exam_state
                         /\ rerun_pending' = FALSE
                         /\ gen_log' = <<Logged("evaluation", ev)>>
                         /\ last_step' = "name_error"
               ELSE /\ WithinFaults(<<ev>>)
                    /\ history' = h2
                    /\ exam_state' = "finished"
                    /\ rerun_pending' = TRUE
                    /\ gen_log' = <<Logged("evaluation", ev)>>
                    /\ last_step' = "answer_finished"

\* lines 344-359: a truthy transcript `text.v` of the recording
AnswerCycle(config, text, aud, captured, turns) ==
    LET h1     == Append(history, [role |-> "student", text |-> text.v])
        last_q == h1[Len(h1) - 1]["text"]
        phase  == h1[Len(h1) - 1]["phase"]
        pi     == phase_index + 1
    IN  \E envE \in GenEnvs :
        LET ev == evaluate_response(last_q, text.v, cefr_level, phase, envE)
            h2 == Append(h1, [role |-> "grade", text |-> ev.text])
        IN  /\ gen_faults + Faults(ev) <= MaxGenFaults
            /\ phase_index' = pi
            /\ UNCHANGED <<student_info, cefr_level, saved, save_calls>>
            /\ AudioKept(aud, captured, turns + 1)
            /\ save_log' = NoRequest
            /\ IF pi < Len(PHASE_ORDER)
               THEN IF gemini_key
                    THEN \E envQ \in GenEnvs :
                         LET next_p == PhaseAt(pi)
                             q == get_opi_question(cefr_level, next_p, h2,
                                      student_info, config, envQ)
                         IN  /\ WithinFaults(<<ev, q>>)
                             /\ history' = Append(h2, [role |-> "examiner",
                                      text |-> q.text, phase |-> next_p])
                             /\ exam_state' = exam_state
                             /\ rerun_pending' = TRUE
                             /\ gen_log' = <<Logged("evaluation", ev),
                                            Logged("question", q)>>
                             /\ last_step' = "answer_next_question"
                    ELSE \* NameError: `textbooks` is not bound (line 354)
                         /\ WithinFaults(<<ev>>)
                         /\ history' = h2
                         /\ exam_state' = exam_state
                         /\ rerun_pending' = FALSE
                         /\ gen_log' = <<Logged("evaluation", ev)>>
                         /\ last_step' = "name_error"
               ELSE /\ WithinFaults(<<ev>>)
                    /\ history' = h2
                    /\ exam_state' = "finished"
                    /\ rerun_pending' = TRUE
                    /\ gen_log' = <<Logged("evaluation", ev)>>
                    /\ last_step' = "answer_finished"

\* the no-transcript branch committing the falsy transcript as an answer
NoTranscriptCommitsEmptyTurn(aud, captured, turns) ==
    /\ history' = Append(history, [role |-> "student", text |-> <<>>])
    /\ UNCHANGED <<exam_state, phase_index, student_info,
                   cefr_level, saved, save_calls>>
    /\ AudioKept(aud, captured, turns)
    /\ rerun_pending' = FALSE
    /\ WithinFaults(<<>>)
    /\ gen_log' = <<>>
    /\ save_log' = NoRequest
    /\ last_step' = "no_transcript"

\* lines 329-330 and 360-361: no transcript, nothing is committed
NoTranscript(aud, captured, turns) ==
    /\ UNCHANGED <<history, exam_state, phase_index, student_info,
                   cefr_level, saved, save_calls>>
    /\ AudioKept(aud, captured, turns)
    /\ rerun_pending' = FALSE
    /\ WithinFaults(<<>>)
    /\ gen_log' = <<>>
    /\ save_log' = NoRequest
    /\ last_step' = "no_transcript"

\* lines 316-361: the audio widget holds a recording
SubmitRecording(config, aud, captured, turns) ==
    \E ffmpeg \in FfmpegResults :
        IF ffmpeg = "failed"
        THEN /\ stt_log' = NoRequest
             /\ NoTranscript(aud, captured, turns)
        ELSE \E service \in SpeechResults :
             LET res  == speech_to_text(gcp_creds, service)
                 text == res[1]
             IN  /\ stt_log' = <<[captured |-> captured, at |-> phase_index]>>
                 /\ IF Truthy(text)
                    THEN AnswerCycle(config, text, aud, captured, turns)
                    ELSE NoTranscript(aud, captured, turns)

\* lines 301-361; `aud` is the value st.audio_input returns in this execution
InterviewBranch(config, aud, captured, turns) ==
    IF history = <<>>
    THEN \* IndexError at line 314
         /\ UNCHANGED <<history, exam_state, phase_index, student_info,
                        cefr_level, saved, save_calls>>
         /\ AudioDropped
         /\ rerun_pending' = FALSE
         /\ WithinFaults(<<>>)
         /\ last_step' = "index_error"
         /\ stt_log' = NoRequest
         /\ gen_log' = <<>>
         /\ save_log' = NoRequest
    ELSE IF Last(history)["role"] # "examiner"
    THEN \* the audio widget is not rendered
         /\ UNCHANGED <<history, exam_state, phase_index, student_info,
                        cefr_level, saved, save_calls>>
         /\ AudioDropped
         /\ rerun_pending' = FALSE
         /\ WithinFaults(<<>>)
         /\ last_step' = "no_pending_question"
         /\ stt_log' = NoRequest
         /\ gen_log' = <<>>
         /\ save_log' = NoRequest
    ELSE IF aud = "none"
    THEN \* line 316: the widget is rendered and holds nothing
         /\ UNCHANGED <<history, exam_state, phase_index, student_info,
                        cefr_level, saved, save_calls>>
         /\ AudioKept(aud, captured, turns)
         /\ rerun_pending' = FALSE
         /\ WithinFaults(<<>>)
         /\ last_step' = "awaiting_recording"
         /\ stt_log' = NoRequest
         /\ gen_log' = <<>>
         /\ save_log' = NoRequest
    ELSE SubmitRecording(config, aud, captured, turns)

\* lines 367-371: save_result is called unless the flag is set; the result
\* is what the call leaves in `saved`
FinishedSave(config) ==
    IF ~saved
    THEN /\ save_calls < MaxSaveCalls
         /\ \E sheet \in SheetResults, env \in GenEnvs :
            LET r == save_result(student_info, cefr_level, config,
                                 history, gcp_creds, sheet, env)
            IN  /\ gen_faults + FaultsOf(r.gen) <= MaxGenFaults
                /\ save_calls' = save_calls + 1
                /\ save_log' = <<LoggedSave(r)>>
                /\ gen_log' = IF r.gen = <<>> THEN <<>> ELSE <<Logged("summary", r.gen[1])>>
    ELSE /\ save_calls' = save_calls
         /\ save_log' = NoRequest
         /\ gen_log' = <<>>

SavedAfter == saved \/ (save_log' # NoRequest /\ save_log'[1].ok)

\* lines 364-374 with the button not clicked
FinishedBranch(config) ==
    /\ FinishedSave(config)
    /\ saved' = SavedAfter
    /\ gen_faults' = gen_faults + Cardinality({i \in 1..Len(gen_log') : gen_log'[i].raised # {}})
    /\ last_step' = IF save_log' = NoRequest THEN "finished_rendered"
                    ELSE IF saved' THEN "save_ok" ELSE "save_failed"
    /\ UNCHANGED <<history, exam_state, phase_index, student_info, cefr_level>>
    /\ AudioDropped
    /\ rerun_pending' = FALSE
    /\ stt_log' = NoRequest

\* lines 254-374 when no button of the main area is clicked
MainArea(config, aud, captured, turns) ==
    IF exam_state = "setting" THEN SettingBranch
    ELSE IF exam_state = "interview"
    THEN InterviewBranch(config, aud, captured, turns)
    ELSE FinishedBranch(config)

-----------------------------------------------------------------------------
(* One action per event that makes Streamlit execute the script *)

\* the execution that st.rerun() starts: no widget has changed
Rerun ==
    /\ rerun_pending
    /\ UNCHANGED mode
    /\ exam_config' = SidebarConfig(mode, exam_config)
    /\ MainArea(exam_config', audio_val, audio_phase, audio_turns)
    /\ form_error' = "none"
    /\ Secrets

\* the user moves the sidebar radio (line 186)
SelectMode(m) ==
    /\ ~rerun_pending
    /\ m # mode
    /\ mode' = m
    /\ exam_config' = SidebarConfig(m, exam_config)
    /\ MainArea(exam_config', audio_val, audio_phase, audio_turns)
    /\ form_error' = "none"
    /\ Secrets

\* the user types into the password field (line 195): the script is
\* executed, and the form of lines 199-229 is rendered or not
EnterPassword ==
    /\ ~rerun_pending
    /\ mode = Exam
    /\ mode' = mode
    /\ exam_config' = SidebarConfig(mode, exam_config)
    /\ MainArea(exam_config', audio_val, audio_phase, audio_turns)
    /\ form_error' = "none"
    /\ Secrets

\* lines 218-229: the settings are stored and the script is restarted
ApplyExamSettings(ex_year, ex_type, ex_class, ex_cefr, ex_sheet_url) ==
    /\ exam_config' = [is_exam |-> TRUE, year |-> ex_year, type |-> ex_type,
                       class |-> ex_class, level |-> ex_cefr,
                       sheet_url |-> ex_sheet_url]
    /\ exam_state' = "setting"
    /\ history' = <<>>
    /\ UNCHANGED <<phase_index, student_info, cefr_level, saved, save_calls>>
    /\ AudioDropped
    /\ rerun_pending' = TRUE
    /\ gen_faults' = 0
    /\ last_step' = "settings_applied"
    /\ stt_log' = NoRequest
    /\ gen_log' = <<>>
    /\ save_log' = NoRequest

\* the form stored without the check of line 215
SubmitExamSettingsUnchecked(pwd, year, type, class, cefr, sheet_url) ==
    /\ ~rerun_pending
    /\ mode = Exam
    /\ pwd = ADMIN_PASSWORD
    /\ UNCHANGED mode
    /\ ApplyExamSettings(year, type, class, cefr, sheet_url)
    /\ form_error' = "none"
    /\ Secrets

\* the administrator submits the exam_settings form (lines 197-229), which
\* is rendered while the password field holds `pwd`
SubmitExamSettings(pwd, ex_year, ex_type, ex_class, ex_cefr, ex_sheet_url) ==
    /\ ~rerun_pending
    /\ mode = Exam
    /\ pwd = ADMIN_PASSWORD
    /\ UNCHANGED mode
    /\ IF ex_sheet_url = <<>>
       THEN \* st.error (line 216), and the script goes on to the main area
            /\ exam_config' = SidebarConfig(mode, exam_config)
            /\ MainArea(exam_config', audio_val, audio_phase, audio_turns)
            /\ form_error' = "url_required"
       ELSE /\ ApplyExamSettings(ex_year, ex_type, ex_class, ex_cefr,
                                 ex_sheet_url)
            /\ form_error' = "none"
    /\ Secrets

\* the sidebar reset button (lines 241-243)
ClickReset ==
    /\ ~rerun_pending
    /\ Clear
    /\ UNCHANGED save_calls
    /\ last_step' = "reset"
    /\ form_error' = "none"
    /\ gen_log' = <<>>
    /\ save_log' = NoRequest
    /\ Secrets

\* the session started without the assignment of lines 270 and 292
StartSessionKeepsCursor(config, info, cefr) ==
    /\ student_info' = info
    /\ cefr_level' = cefr
    /\ phase_index' = phase_index
    /\ exam_state' = "interview"
    /\ saved' = saved
    /\ save_calls' = 0
    /\ AudioDropped
    /\ stt_log' = NoRequest
    /\ save_log' = NoRequest
    /\ IF gemini_key
       THEN \E env \in GenEnvs :
            LET current == PhaseAt(0)
                q == get_opi_question(cefr, current, <<>>, info,
                                      config, env)
            IN  /\ history' = Append(history, [role |-> "examiner",
                                  text |-> q.text, phase |-> current])
                /\ rerun_pending' = TRUE
                /\ WithinFaults(<<q>>)
                /\ gen_log' = <<Logged("question", q)>>
                /\ last_step' = "started"
       ELSE \* NameError: `textbooks` is not bound (lines 273, 296)
            /\ history' = history
            /\ rerun_pending' = FALSE
            /\ WithinFaults(<<>>)
            /\ gen_log' = <<>>
            /\ last_step' = "name_error"

\* lines 268-275 and 290-298: the session starts
StartSession(config, info, cefr) ==
    /\ student_info' = info
    /\ cefr_level' = cefr
    /\ phase_index' = 0
    /\ exam_state' = "interview"
    /\ saved' = saved
    /\ save_calls' = 0
    /\ AudioDropped
    /\ stt_log' = NoRequest
    /\ save_log' = NoRequest
    /\ IF gemini_key
       THEN \E env \in GenEnvs :
            LET current == PhaseAt(0)
                q == get_opi_question(cefr, current, <<>>, info,
                                      config, env)
            IN  /\ history' = Append(history, [role |-> "examiner",
                                  text |-> q.text, phase |-> current])
                /\ rerun_pending' = TRUE
                /\ WithinFaults(<<q>>)
                /\ gen_log' = <<Logged("question", q)>>
                /\ last_step' = "started"
       ELSE \* NameError: `textbooks` is not bound (lines 273, 296)
            /\ history' = history
            /\ rerun_pending' = FALSE
            /\ WithinFaults(<<>>)
            /\ gen_log' = <<>>
            /\ last_step' = "name_error"

\* the practice start button without the check of line 266
StartPracticeUnchecked(s_name, s_class, s_id, selected_cefr) ==
    /\ ~rerun_pending
    /\ exam_state = "setting"
    /\ UNCHANGED mode
    /\ exam_config' = SidebarConfig(mode, exam_config)
    /\ ~exam_config'["is_exam"]
    /\ StartSession(exam_config',
                    [name |-> s_name, class |-> s_class, id |-> s_id],
                    selected_cefr)
    /\ form_error' = "none"
    /\ Secrets

\* the practice start button (lines 265-275)
StartPractice(s_name, s_class, s_id, selected_cefr) ==
    /\ ~rerun_pending
    /\ exam_state = "setting"
    /\ UNCHANGED mode
    /\ exam_config' = SidebarConfig(mode, exam_config)
    /\ ~exam_config'["is_exam"]
    /\ IF s_name = <<>>
       THEN \* st.error (line 266)
            /\ SettingBranch
            /\ form_error' = "name_required"
       ELSE /\ StartSession(exam_config',
                            [name |-> s_name, class |-> s_class, id |-> s_id],
                            selected_cefr)
            /\ form_error' = "none"
    /\ Secrets

\* the exam start button, shown once name and id are filled (lines 286-298)
StartExam(s_name, s_class, s_id) ==
    /\ ~rerun_pending
    /\ exam_state = "setting"
    /\ UNCHANGED mode
    /\ exam_config' = SidebarConfig(mode, exam_config)
    /\ exam_config'["is_exam"]
    /\ ~(s_name = <<>> \/ s_id = <<>>)
    /\ StartSession(exam_config',
                    [name |-> s_name, class |-> s_class, id |-> s_id],
                    exam_config'["level"])
    /\ form_error' = "none"
    /\ Secrets

\* the learner records an answer in the audio widget (line 315)
RecordAudio ==
    /\ ~rerun_pending
    /\ exam_state = "interview"
    /\ history # <<>>
    /\ Last(history)["role"] = "examiner"
    /\ UNCHANGED mode
    /\ exam_config' = SidebarConfig(mode, exam_config)
    /\ MainArea(exam_config', "rec", phase_index, 0)
    /\ form_error' = "none"
    /\ Secrets

\* the learner deletes the recording held by the audio widget
DeleteAudio ==
    /\ ~rerun_pending
    /\ exam_state = "interview"
    /\ audio_val = "rec"
    /\ UNCHANGED mode
    /\ exam_config' = SidebarConfig(mode, exam_config)
    /\ MainArea(exam_config', "none", 0, 0)
    /\ form_error' = "none"
    /\ Secrets

\* the button of the finished screen (lines 364-374)
ClickFinish ==
    /\ ~rerun_pending
    /\ exam_state = "finished"
    /\ FinishedSave(SidebarConfig(mode, exam_config))
    /\ Clear
    /\ last_step' = "finish_clicked"
    /\ form_error' = "none"
    /\ Secrets

Next ==
    \/ Rerun
    \/ \E m \in {Practice, Exam} : SelectMode(m)
    \/ EnterPassword
    \/ \E p \in Passwords, y \in Years, t \in ExamTypes, c \in Classes,
          l \in CefrLevels, u \in Urls : SubmitExamSettings(p, y, t, c, l, u)
    \/ ClickReset
    \/ \E n \in Names, c \in Classes, i \in Ids, l \in CefrLevels :
          StartPractice(n, c, i, l)
    \/ \E n \in Names, c \in Classes, i \in Ids : StartExam(n, c, i)
    \/ RecordAudio
    \/ DeleteAudio
    \/ ClickFinish

Spec == Init /\ [][Next]_vars

-----------------------------------------------------------------------------
(* Properties *)

CountRole(hist, role) == Cardinality({i \in 1..Len(hist) : hist[i]["role"] = role})

AllCandidates == {Candidates[i] : i \in 1..Len(Candidates)}
DegradedPrefix == <<"generation error: ">>
IsDegraded(text) == Len(text) > 1 /\ SubSeq(text, 1, 1) = DegradedPrefix

\* C1: a recording is submitted for transcription only while phase_index
\* has the value it had when the recording was captured, and one recording
\* yields at most one student Turn.
C1_StaleRecordingDiscarded ==
    /\ stt_log # NoRequest => stt_log[1].captured = stt_log[1].at
    /\ audio_turns <= 1

\* C2: a session is finished after exactly five student Turns, and
\* save_result is invoked exactly once for it: once the finished screen has
\* been rendered, however often.
C2_FiveAnswersOneSave ==
    exam_state = "finished" =>
        /\ CountRole(history, "student") = Len(PHASE_ORDER)
        /\ save_calls <= 1
        /\ (last_step \in {"save_ok", "save_failed", "finished_rendered"}
               => save_calls = 1)

\* C3: save_result is invoked at most once per session, also when the
\* first invocation failed.
C3_SaveAtMostOnce == save_calls <= 1

\* C4: phase_index stays within 0..len(PHASE_ORDER), is len(PHASE_ORDER)
\* exactly when exam_state is 'finished', and never decreases while a
\* session lasts.
C4_CursorBoundedMonotoneIffFinished ==
    [][/\ phase_index' \in 0..Len(PHASE_ORDER)
       /\ (phase_index' = Len(PHASE_ORDER) <=> exam_state' = "finished")
       /\ (exam_state # "setting" /\ exam_state' # "setting"
              => phase_index' >= phase_index)]_vars

\* C5: an execution in which the recording yields no transcript (conversion
\* failure, recognition error or empty result) leaves phase_index, history
\* and exam_state as they were, with the same examiner Turn pending.
C5_NoTranscriptChangesNothing ==
    [][last_step' = "no_transcript" =>
          /\ phase_index' = phase_index
          /\ history' = history
          /\ exam_state = "interview" /\ exam_state' = "interview"
          /\ Last(history')["role"] = "examiner"]_vars

\* a recognition request at cycle 2 came back without a transcript
C5_Witness ==
    /\ last_step = "no_transcript"
    /\ stt_log # NoRequest
    /\ phase_index = 2
    /\ Len(history) = 7

\* C6: while a session lasts (interview or finished screen, a first
\* question asked), no event changes exam_config.
C6_ConfigReadOnlyInSession ==
    [][(exam_state # "setting" /\ exam_state' # "setting" /\ history # <<>>)
          => exam_config' = exam_config]_vars

\* C7: a step that changes the mode after a session has started resets
\* history to empty and phase_index to 0.
C7_ModeSwitchResets ==
    [][(exam_state # "setting" /\ history # <<>>
           /\ exam_config'["is_exam"] # exam_config["is_exam"])
          => (history' = <<>> /\ phase_index' = 0)]_vars

\* the step is a submission of the exam_settings form that was refused
RejectedSubmission == form_error' = "url_required"

SheetUrlSet(config) == config["is_exam"] => config["sheet_url"] # <<>>

\* C8 as stated: a submission with an empty URL leaves exam_config,
\* exam_state and history as they were, and is_exam implies a non-empty
\* sheet_url in every state.
C8_RejectedSubmissionChangesNothing ==
    [][/\ RejectedSubmission =>
             UNCHANGED <<exam_config, exam_state, history>>
       /\ SheetUrlSet(exam_config')]_vars

\* C8 amended: a submission with an empty URL leaves exam_config as it was,
\* and exam_state and history too unless the audio widget holds a recording
\* during an interview (the same execution then submits it again); is_exam
\* implies a non-empty sheet_url in every state.
C8_RejectedSubmissionKeepsConfig ==
    [][/\ RejectedSubmission =>
             /\ exam_config' = exam_config
             /\ (audio_val = "none" \/ exam_state # "interview")
                    => UNCHANGED <<exam_state, history>>
       /\ SheetUrlSet(exam_config')]_vars

\* the form was submitted with an empty URL while exam settings were in
\* force during an interview: the settings are still there
C8_Witness ==
    /\ form_error = "url_required"
    /\ exam_config["is_exam"]
    /\ exam_state = "interview"
    /\ history # <<>>

\* C9: a call in which every candidate raised returns a non-empty degraded
\* string; that string is the text of the Turn committed for it, and an
\* answer cycle whose evaluation degraded still adds one to phase_index and
\* goes on to the next question or to 'finished'.
C9_DegradedTextKeepsSessionGoing ==
    [][\A i \in 1..Len(gen_log') :
          gen_log'[i].raised = AllCandidates =>
             /\ IsDegraded(gen_log'[i].text)
             /\ gen_log'[i].kind = "question" =>
                   /\ exam_state' = "interview"
                   /\ Last(history') = [role |-> "examiner",
                                        text |-> gen_log'[i].text,
                                        phase |-> PhaseAt(phase_index')]
             /\ gen_log'[i].kind = "evaluation" =>
                   /\ phase_index' = phase_index + 1
                   /\ history'[Len(history) + 2] =
                          [role |-> "grade", text |-> gen_log'[i].text]
                   /\ IF phase_index' < Len(PHASE_ORDER)
                      THEN /\ exam_state' = "interview"
                           /\ Len(history') = Len(history) + 3
                           /\ Last(history')["role"] = "examiner"
                      ELSE exam_state' = "finished"]_vars

\* a session went on to the finished screen with a degraded evaluation in
\* its history
C9_Witness ==
    /\ exam_state = "finished"
    /\ \E k \in 1..Len(history) :
          history[k]["role"] = "grade" /\ IsDegraded(history[k]["text"])

\* what a call of safe_generate_content must look like, with `culprit` the
\* candidate whose error message the degraded string embeds
GenerationContract(call, culprit) ==
    /\ \E n \in 1..Len(Candidates) : call.called = SubSeq(Candidates, 1, n)
    /\ \/ /\ call.raised = {call.called[i] : i \in 1..(Len(call.called) - 1)}
          /\ call.text = Reply(Last(call.called))
       \/ /\ call.raised = AllCandidates
          /\ call.called = Candidates
          /\ call.text = DegradedPrefix \o ErrorOf(culprit)

LastTried(call) == Last(call.called)
FirstTried(call) == call.called[1]

\* C10 as stated: candidates are tried in order, the first success is
\* returned without calling later candidates, and when all fail the
\* degraded string embeds the error of the last candidate tried.
C10_FallbackEmbedsLastError ==
    \A i \in 1..Len(gen_log) : GenerationContract(gen_log[i], LastTried(gen_log[i]))

\* C10 amended: the degraded string embeds the error of the first
\* candidate tried.
C10_FallbackEmbedsFirstError ==
    \A i \in 1..Len(gen_log) : GenerationContract(gen_log[i], FirstTried(gen_log[i]))

\* calls of every kind happened: all candidates failed
C10_Witness ==
    \E i \in 1..Len(gen_log) : gen_log[i].raised = AllCandidates

\* C11: exam_state only moves forward along setting -> interview ->
\* finished; the only steps that take it from 'interview' or 'finished' back
\* to 'setting' are the two buttons that clear the session state (checked for
\* sessions whose first question was asked).
C11_StateOnlyMovesForward ==
    [][/\ (exam_state \in {"interview", "finished"} /\ history # <<>>
              /\ exam_state' = "setting")
              => last_step' \in {"reset", "finish_clicked"}
       /\ exam_state = "setting" => exam_state' # "finished"
       /\ exam_state = "finished" => exam_state' # "interview"]_vars

\* C12: no step leaves a partial mutation: whenever exam_state is
\* 'interview' the history is non-empty and ends with an examiner Turn, and
\* the student Turns, the grade Turns and phase_index number the same; also
\* when question generation aborts with an exception.
C12_NoPartialMutation ==
    exam_state = "interview" =>
        /\ history # <<>>
        /\ Last(history)["role"] = "examiner"
        /\ CountRole(history, "student") = phase_index
        /\ CountRole(history, "grade") = phase_index

\* the history is `n` groups (examiner, student, grade) followed by
\* `pending` more Turns
Aligned(hist, n, pending) ==
    /\ Len(hist) = 3 * n + pending
    /\ \A k \in 0..(n - 1) :
          /\ hist[3 * k + 1]["role"] = "examiner"
          /\ hist[3 * k + 2]["role"] = "student"
          /\ hist[3 * k + 3]["role"] = "grade"

\* C13: in every interview or finished state the history is phase_index
\* complete groups (examiner, student, grade), followed by exactly one
\* pending examiner Turn in 'interview' and by nothing in 'finished'; while
\* a session lasts the history only grows by appends.
C13_HistoryPhaseAligned ==
    [][/\ exam_state' = "interview" =>
             /\ Aligned(history', phase_index', 1)
             /\ Last(history')["role"] = "examiner"
       /\ exam_state' = "finished" => Aligned(history', phase_index', 0)
       /\ (exam_state # "setting" /\ exam_state' # "setting") =>
             /\ Len(history') >= Len(history)
             /\ SubSeq(history', 1, Len(history)) = history]_vars

PracticeLabel == <<"practice mode">>

\* the call of save_result failed inside the spreadsheet service or for
\* want of credentials
ServiceFailure(r) == r.msg \in {<<"auth error">>, <<"exception">>}

\* C14: when the finished screen calls save_result in practice mode (and
\* neither the credentials nor the spreadsheet service fail), a row whose
\* exam-name field is the practice label is handed to append_row.
C14_PracticeRowSubmitted ==
    (/\ last_step \in {"save_ok", "save_failed"}
     /\ ~exam_config["is_exam"]
     /\ ~ServiceFailure(save_log[1]))
        => /\ save_log[1].row # <<>>
           /\ save_log[1].row[1] = PracticeLabel

ExaminerTurns(hist) == SelectSeq(hist, LAMBDA h : h["role"] = "examiner")

\* C15: the k-th examiner Turn of a session (k from 0) carries
\* PHASE_ORDER[k], and the evaluation of the k-th answer is requested with
\* the text and the phase of that k-th examiner Turn, which is the Turn
\* immediately before the student Turn, and with the answer just given.
C15_EvaluationOfPendingQuestion ==
    [][/\ \A k \in 1..Len(ExaminerTurns(history')) :
             /\ k <= Len(PHASE_ORDER)
             /\ ExaminerTurns(history')[k]["phase"] = PHASE_ORDER[k]
       /\ \A i \in 1..Len(gen_log') :
             gen_log'[i].kind = "evaluation" =>
                LET k == CountRole(history, "student") + 1
                    asked == ExaminerTurns(history')[k]
                    answer == history'[Len(history) + 1]
                IN  /\ history # <<>>
                    /\ Last(history) = asked
                    /\ answer["role"] = "student"
                    /\ CountRole(history', "student") = k
                    /\ gen_log'[i].prompt["question"] = asked["text"]
                    /\ gen_log'[i].prompt["phase"] = asked["phase"]
                    /\ gen_log'[i].prompt["phase"] = PHASE_ORDER[k]
                    /\ gen_log'[i].prompt["answer"] = answer["text"]]_vars

\* the answer to the fourth question was evaluated
C15_Witness ==
    \E i \in 1..Len(gen_log) :
        /\ gen_log[i].kind = "evaluation"
        /\ gen_log[i].prompt["phase"] = "probe"
        /\ phase_index = 4

\* C16: PHASE_ORDER is only indexed within 0..4: whenever the interview
\* screen is rendered, and whenever the next phase was looked up after an
\* increment, phase_index < len(PHASE_ORDER); a session starts at index 0
\* whatever an earlier session left in phase_index.
C16_PhaseIndexInRange ==
    /\ exam_state = "interview" => phase_index \in 0..(Len(PHASE_ORDER) - 1)
    /\ last_step = "answer_next_question" =>
          /\ phase_index \in 1..(Len(PHASE_ORDER) - 1)
          /\ Last(history)["phase"] = PhaseAt(phase_index)
    /\ last_step = "started" =>
          /\ phase_index = 0
          /\ Last(history)["phase"] = PhaseAt(0)

\* an interview is going on after the exam settings were applied from the
\* finished screen of a saved session, which left phase_index at 5
C16_Witness ==
    /\ exam_state = "interview"
    /\ saved
    /\ history # <<>>

\* C17: exam_state becomes 'interview' only from 'setting', only through a
\* start button, and only with a non-empty learner name (in exam mode also
\* a non-empty learner id); a start refused for an empty name changes
\* neither student_info, phase_index, history nor exam_state.
C17_StartNeedsName ==
    [][/\ (exam_state # "interview" /\ exam_state' = "interview") =>
             /\ exam_state = "setting"
             /\ last_step' \in {"started", "name_error"}
             /\ student_info' # Absent
             /\ student_info'["name"] # <<>>
             /\ exam_config'["is_exam"] => student_info'["id"] # <<>>
       /\ form_error' = "name_required" =>
             UNCHANGED <<student_info, phase_index, history, exam_state>>]_vars

\* a practice start was refused for an empty name
C17_Witness ==
    /\ form_error = "name_required"
    /\ exam_state = "setting"
    /\ ~exam_config["is_exam"]

\* C18: the saved flag is not set while an interview is going on, and a
\* session on the finished screen with exam settings and a spreadsheet URL
\* has had save_result invoked for it once the screen was rendered.
C18_EverySessionSaved ==
    /\ exam_state = "interview" => ~saved
    /\ (/\ exam_state = "finished"
        /\ last_step \in {"finished_rendered", "save_ok", "save_failed"}
        /\ exam_config["is_exam"]
        /\ Get(exam_config, "sheet_url", <<>>) # <<>>)
           => save_calls >= 1

\* C19: in every interview state in which the script waits for the user, a
\* recording can be accepted: the audio widget is rendered for a pending
\* examiner question, so that answering can take the session to 'finished'.
C19_RecordingAccepted ==
    (exam_state = "interview" /\ ~rerun_pending) => ENABLED RecordAudio

====
